---- MODULE Spec2Model ----
(***************************************************************************)
(* wsl-bridge: a model of the port registry (config.rs), the rule          *)
(* synchronizer (windows.rs) and the daemon loop (main.rs).                *)
(*                                                                         *)
(* The host forwarding table, the persisted registry file, the two source  *)
(* probes and the guest-address lookup are the environment: every call to  *)
(* them draws its outcome nondeterministically.                            *)
(***************************************************************************)
EXTENDS Integers, Sequences, FiniteSets, TLC

\* ---------------------------------------------------------------- bounds
\* Ports of the model are 1..MaxPort.
MaxPort == 2

Ports == 1..MaxPort

\* Structured documents nest at most JsonDepth containers.
JsonDepth == 2

\* Strings are made of at most MaxTokens pieces.
MaxTokens == 4

\* u16::MAX, the largest port.
U16Max == 65535

\* Guest addresses: opaque values, compared for equality only.
IPs == {"172.20.0.2", "172.20.0.3"}

\* Option<Ipv4Addr>::None
NoIp == "None"

\* ------------------------------------------------------------- config.rs
\* PortsConfig::default()
DefaultConfig == [manual_ports |-> {}, pm2_ports |-> {}, caddy_ports |-> {}]

PortsConfig == [manual_ports : SUBSET Ports, pm2_ports : SUBSET Ports, caddy_ports : SUBSET Ports]

\* all_ports, chaining the manual set only.
all_ports_manualOnly(c) == c.manual_ports

all_ports(c) == c.manual_ports \cup c.pm2_ports \cup c.caddy_ports

\* remove_manual_port, emptying the manual set.
remove_manual_port_clear(c, port) ==
    [cfg |-> [c EXCEPT !.manual_ports = {}], ret |-> port \in c.manual_ports]

\* add_manual_port, replacing the manual set by the port.
add_manual_port_replace(c, port) ==
    [cfg |-> [c EXCEPT !.manual_ports = {port}], ret |-> port \notin c.manual_ports]

\* The methods return the new configuration and the bool the code returns.
add_manual_port(c, port) ==
    [cfg |-> [c EXCEPT !.manual_ports = @ \cup {port}], ret |-> port \notin c.manual_ports]

remove_manual_port(c, port) ==
    [cfg |-> [c EXCEPT !.manual_ports = @ \ {port}], ret |-> port \in c.manual_ports]

\* set_detected_ports, merging into the sets instead of replacing them.
set_detected_ports_merge(c, pm2, caddy) ==
    [c EXCEPT !.pm2_ports = @ \cup pm2, !.caddy_ports = @ \cup caddy]

set_detected_ports(c, pm2, caddy) == [c EXCEPT !.pm2_ports = pm2, !.caddy_ports = caddy]

\* load_or_default, falling back to the default on an unreadable file.
load_or_default_lenient(f, o) == [ok |-> TRUE, cfg |-> IF o = "ok" THEN f ELSE DefaultConfig]

\* load_or_default: o is the outcome of reading and parsing the file.
load_or_default(f, o) == IF o = "ok" THEN [ok |-> TRUE, cfg |-> f] ELSE [ok |-> FALSE, cfg |-> DefaultConfig]

\* save, returning Ok without writing.
save_nothing(f, c, o) == [ok |-> o = "ok", file |-> f]

\* save, keeping the manual ports the file holds.
save_merge(f, c, o) ==
    IF o = "ok"
    THEN [ok |-> TRUE, file |-> [c EXCEPT !.manual_ports = @ \cup f.manual_ports]]
    ELSE [ok |-> FALSE, file |-> f]

\* save: the file after the call, and whether the call succeeded.
save(f, c, o) == IF o = "ok" THEN [ok |-> TRUE, file |-> c] ELSE [ok |-> FALSE, file |-> f]

IoOutcomes == {"ok", "err"}

SeqSet(s) == {s[i] : i \in 1..Len(s)}

\* ----------------------------------------------------------- detector.rs
\* A probe's Result<BTreeSet<u16>>.
ProbeResults == {[ok |-> FALSE, ports |-> {}]} \cup [ok : {TRUE}, ports : SUBSET Ports]

NoProbe == [ok |-> FALSE, ports |-> {}]

unwrap_or_empty(r) == IF r.ok THEN r.ports ELSE {}

\* detect_ports, giving up on both sets when one probe fails.
detect_ports_coupled(pm2res, caddyres) ==
    IF pm2res.ok /\ caddyres.ok THEN <<pm2res.ports, caddyres.ports>> ELSE <<{}, {}>>

detect_ports(pm2res, caddyres) == <<unwrap_or_empty(pm2res), unwrap_or_empty(caddyres)>>

\* Text is a sequence of one-character strings.
Digits == <<"0", "1", "2", "3", "4", "5", "6", "7", "8", "9">>

UpperCase == <<"A", "B", "C", "D", "E", "F", "G", "H", "I", "J", "K", "L", "M",
               "N", "O", "P", "Q", "R", "S", "T", "U", "V", "W", "X", "Y", "Z">>

LowerCase == <<"a", "b", "c", "d", "e", "f", "g", "h", "i", "j", "k", "l", "m",
               "n", "o", "p", "q", "r", "s", "t", "u", "v", "w", "x", "y", "z">>

to_ascii_lowercase(ch) ==
    IF \E i \in 1..Len(UpperCase) : UpperCase[i] = ch
    THEN LowerCase[CHOOSE i \in 1..Len(UpperCase) : UpperCase[i] = ch]
    ELSE ch

\* str::eq_ignore_ascii_case
eq_ignore_ascii_case(a, b) ==
    /\ Len(a) = Len(b)
    /\ \A i \in 1..Len(a) : to_ascii_lowercase(a[i]) = to_ascii_lowercase(b[i])

\* to_valid_port, letting 0 through.
to_valid_port_zero(v) == IF v > U16Max THEN {} ELSE {v}

\* to_valid_port: an Option, as a set of at most one port.
to_valid_port(v) ==
    IF v > U16Max THEN {}
    ELSE IF v = 0 THEN {}
    ELSE {v}

\* str::parse::<u16>: an optional '+', then one or more digits, the value
\* checked against u16::MAX at every digit.
IsDigit(ch) == \E i \in 1..Len(Digits) : Digits[i] = ch

DigitValue(ch) == (CHOOSE i \in 1..Len(Digits) : Digits[i] = ch) - 1

RECURSIVE parse_digits(_, _)
parse_digits(s, acc) ==
    IF s = <<>> THEN [ok |-> TRUE, v |-> acc]
    ELSE IF ~IsDigit(Head(s)) THEN [ok |-> FALSE, v |-> 0]
    ELSE LET n == acc * 10 + DigitValue(Head(s))
         IN IF n > U16Max THEN [ok |-> FALSE, v |-> 0] ELSE parse_digits(Tail(s), n)

parse_u16(s) ==
    LET body == IF s # <<>> /\ Head(s) = "+" THEN Tail(s) ELSE s
    IN IF body = <<>> THEN [ok |-> FALSE, v |-> 0] ELSE parse_digits(body, 0)

\* str::strip_prefix(':')
strip_prefix(s, ch) ==
    IF s # <<>> /\ Head(s) = ch THEN [some |-> TRUE, s |-> Tail(s)] ELSE [some |-> FALSE, s |-> <<>>]

\* str::rfind(':'): the index of the last ch, 0 for None.
RECURSIVE rfind_from(_, _, _)
rfind_from(s, ch, i) ==
    IF i = 0 THEN 0
    ELSE IF s[i] = ch THEN i
    ELSE rfind_from(s, ch, i - 1)

rfind(s, ch) == rfind_from(s, ch, Len(s))

\* str::trim_end_matches('/')
RECURSIVE trim_end_matches(_, _)
trim_end_matches(s, ch) ==
    IF s # <<>> /\ s[Len(s)] = ch THEN trim_end_matches(SubSeq(s, 1, Len(s) - 1), ch) ELSE s

\* The suffix rule of extract_ports_from_string: what it pushes.
suffix_ports(input) ==
    LET idx == rfind(input, ":")
    IN IF idx = 0 THEN <<>>
       ELSE LET suffix == trim_end_matches(SubSeq(input, idx + 1, Len(input)), "/")
                p == parse_u16(suffix)
            IN IF p.ok /\ p.v # 0 THEN <<p.v>> ELSE <<>>

\* extract_ports_from_string, without the return after the prefix rule.
extract_ports_from_string_both(input) ==
    LET stripped == strip_prefix(input, ":")
        p == parse_u16(stripped.s)
    IN IF stripped.some /\ p.ok /\ p.v # 0
       THEN <<p.v>> \o suffix_ports(input)
       ELSE suffix_ports(input)

\* extract_ports_from_string: the Vec it returns.
extract_ports_from_string(input) ==
    LET stripped == strip_prefix(input, ":")
        p == parse_u16(stripped.s)
    IN IF stripped.some /\ p.ok /\ p.v # 0
       THEN <<p.v>>
       ELSE suffix_ports(input)

\* serde_json::Value: null, a number, a string, an array, an object (a map
\* from keys to values).
JNull == [t |-> "null"]

JNum(n) == [t |-> "num", n |-> n]

JStr(str) == [t |-> "str", s |-> str]

JArr(items) == [t |-> "arr", items |-> items]

JObj(map) == [t |-> "obj", map |-> map]

\* Value::as_u64 and Value::as_str, as sets of at most one element.
as_u64(v) == IF v.t = "num" /\ v.n >= 0 THEN {v.n} ELSE {}

as_str(v) == IF v.t = "str" THEN {v.s} ELSE {}

K_port == <<"p", "o", "r", "t">>

K_listen_port == <<"l", "i", "s", "t", "e", "n", "_", "p", "o", "r", "t">>

K_listen == <<"l", "i", "s", "t", "e", "n">>

K_address == <<"a", "d", "d", "r", "e", "s", "s">>

RECURSIVE collect_ports_from_json(_, _)
collect_ports_from_json(v, acc) ==
    IF v.t = "obj"
    THEN LET entry(k) ==
                 LET x == v.map[k]
                 IN (IF eq_ignore_ascii_case(k, K_port) \/ eq_ignore_ascii_case(k, K_listen_port)
                     THEN UNION {to_valid_port(n) : n \in as_u64(x)}
                     ELSE {})
                    \cup (IF eq_ignore_ascii_case(k, K_listen) \/ eq_ignore_ascii_case(k, K_address)
                          THEN UNION {SeqSet(extract_ports_from_string(str)) : str \in as_str(x)}
                          ELSE {})
                    \cup collect_ports_from_json(x, {})
         IN acc \cup UNION {entry(k) : k \in DOMAIN v.map}
    ELSE IF v.t = "arr"
    THEN acc \cup UNION {collect_ports_from_json(v.items[i], {}) : i \in 1..Len(v.items)}
    ELSE IF v.t = "str"
    THEN acc \cup SeqSet(extract_ports_from_string(v.s))
    ELSE acc

\* ------------------------------------------------------------ windows.rs
\* Outcome of one interpreter invocation: exit 0, nonzero exit, or the
\* interpreter could not be launched.
Outcomes == {"success", "nonzero", "launchfail"}

\* run_powershell, taking every exit status for success.
run_powershell_lenient(op, out) == IF out = "launchfail" THEN "Err" ELSE "Ok"

\* run_powershell: "Ok" or "Err" as seen by the caller.
run_powershell(op, out) ==
    IF out = "launchfail" THEN "Err"
    ELSE IF out = "success" THEN "Ok"
    ELSE IF op = "delete" THEN "Ok"
    ELSE "Err"

\* A wildcard-address rule of the host table, keyed by its listen port.
NoRule == [connectaddress |-> NoIp, connectport |-> 0]

Rules == [connectaddress : IPs, connectport : Ports]

Tables == [Ports -> Rules \cup {NoRule}]

EmptyTable == [p \in Ports |-> NoRule]

\* listenaddress=0.0.0.0
Wildcard == "0.0.0.0"

\* delete_cmd, naming the loopback address instead of the wildcard one.
delete_cmd_loopback(port) ==
    [op |-> "delete", listenport |-> port, listenaddress |-> "127.0.0.1",
     connectport |-> 0, connectaddress |-> NoIp]

\* The two command lines apply_portproxy_rules formats, as records.
delete_cmd(port) ==
    [op |-> "delete", listenport |-> port, listenaddress |-> Wildcard,
     connectport |-> 0, connectaddress |-> NoIp]

add_cmd(port, a) ==
    [op |-> "add", listenport |-> port, listenaddress |-> Wildcard,
     connectport |-> port, connectaddress |-> a]

\* The host's netsh: the table of wildcard-address rules after command c
\* ended with outcome out. A command for another listen address does not
\* touch these rules.
Netsh(t, c, out) ==
    IF out # "success" \/ c.listenaddress # Wildcard THEN t
    ELSE IF c.op = "delete" THEN [t EXCEPT ![c.listenport] = NoRule]
    ELSE [t EXCEPT ![c.listenport] =
             [connectaddress |-> c.connectaddress, connectport |-> c.connectport]]

\* Whether the host holds a rule for the command's listen address and port.
HasRule(t, c) == c.listenaddress = Wildcard /\ t[c.listenport] # NoRule

\* The outcome of a command that meets no fault: a delete removes an
\* existing rule and exits nonzero when there is none; an add, which is no
\* upsert, succeeds when no rule holds its listen address and port and
\* exits nonzero when one does.
CleanOutcome(t, c) ==
    IF c.op = "delete" THEN (IF HasRule(t, c) THEN "success" ELSE "nonzero")
    ELSE (IF HasRule(t, c) THEN "nonzero" ELSE "success")

\* The argument list of apply_portproxy_rules as main.rs builds it: the
\* BTreeSet iterated in ascending order.
RECURSIVE SortedSeq(_)
SortedSeq(S) ==
    IF S = {} THEN <<>>
    ELSE LET m == CHOOSE x \in S : \A y \in S : x <= y
         IN <<m>> \o SortedSeq(S \ {m})

\* ------------------------------------------------------------------ state
VARIABLES
    file,        \* the persisted registry (ports.toml); a missing file reads as the default
    table,       \* the host's wildcard-address forwarding rules, by listen port
    caller,      \* what runs: "daemon" (cmd_daemon) or "driver" (direct calls of apply)
    pc,          \* position of the running command
    cfg,         \* cmd_daemon: let mut cfg
    probe,       \* the two probes' results of this cycle, <<pm2, caddy>>
    ip,          \* cmd_daemon: let ip
    ports,       \* cmd_daemon: let ports
    changed,     \* cmd_daemon: let changed
    last_ip,     \* cmd_daemon: let mut last_ip
    last_ports,  \* cmd_daemon: let mut last_ports
    wsl_ip,      \* apply_portproxy_rules: argument wsl_ip
    a_ports,     \* apply_portproxy_rules: argument ports
    a_i,         \* apply_portproxy_rules: index of the loop's current port
    a_res,       \* apply_portproxy_rules: its result, "Ok" | "Err" ("-" while none)
    cmds,        \* the delete and add commands issued since the cycle or call began
    seen,        \* how the commands of the current call ended: whether every add
                 \* succeeded, the ways deletes failed, whether no command met a fault,
                 \* whether every delete left its port without a rule
    calls,       \* calls of apply_portproxy_rules since the cycle began
    lastOk,      \* arguments of the most recent apply that returned Ok
    fail,        \* the step whose I/O failed, "none" while none did
    prev,        \* the previous completed cycle: its pair and its number of calls
    table0,      \* driver: the table when the current call began
    rerun,       \* driver: the current call repeats the previous, successful, call
    arg,         \* one-shot command: the port argument (0 when the command has none)
    exit,        \* one-shot command: "ok" | "err" once it has ended, "-" before
    rules,       \* cmd_status: let rules
    hist,        \* registry calls: the last two calls, each with the manual set before it
    loaded,      \* the manual set as the running command or cycle loaded it
    iolog,       \* the file, probe, address and listing operations of the running
                 \* command or cycle, in the order they were started
    value,       \* collect_ports_from_json: argument value
    input,       \* extract_ports_from_string: argument input
    outp,        \* the extractor's out: the ports it returned
    o_arg,       \* a second invocation, `add`, run beside the daemon: its port argument
    o_exit       \* the second invocation's result, "ok" | "err" ("-" before it ends)

vars == <<file, table, caller, pc, cfg, probe, ip, ports, changed, last_ip, last_ports,
          wsl_ip, a_ports, a_i, a_res, cmds, seen, calls, lastOk, fail, prev, table0, rerun,
          arg, exit, rules, hist, loaded, iolog, value, input, outp,
          o_arg, o_exit>>

daemonLocals == <<cfg, probe, ip, ports, changed>>
daemonState == <<last_ip, last_ports>>
applyLocals == <<wsl_ip, a_ports, a_i, a_res>>
driverVars == <<table0, rerun>>
cliVars == <<arg, exit, rules>>
ioVars == <<loaded, iolog>>
extractorVars == <<value, input, outp>>
otherVars == <<o_arg, o_exit>>

NoLoad == [set |-> FALSE, manual_ports |-> {}]

NoPair == [set |-> FALSE, ip |-> NoIp, ports |-> {}]

NoPrev == [set |-> FALSE, ip |-> NoIp, ports |-> {}, calls |-> 0]

NoneSeen == [addsOk |-> TRUE, delFaults |-> {}, clean |-> TRUE, delsTook |-> TRUE]

\* seen after command c, issued on table t, ended with outcome out.
See(sn, t, c, out) ==
    [addsOk |-> sn.addsOk /\ (c.op = "add" => out = "success"),
     delFaults |-> sn.delFaults \cup (IF c.op = "delete" /\ out # "success" THEN {out} ELSE {}),
     clean |-> sn.clean /\ out = CleanOutcome(t, c),
     delsTook |-> sn.delsTook /\ (c.op = "delete" => (out = "success" \/ ~HasRule(t, c)))]

\* CurrentPort, walking the list from its end.
CurrentPort_reversed == a_ports[Len(a_ports) + 1 - a_i]

\* for &port in ports: the port of the current iteration.
CurrentPort == a_ports[a_i]

\* ------------------------------------------- apply_portproxy_rules, steps
OneShot == {"status", "add", "remove", "sync"}

\* AfterApply, recording the pair whatever the result.
AfterApply_eager(res, ipv, portsv) ==
    IF caller = "daemon"
    THEN /\ pc' = IF res = "Ok" THEN "sleep" ELSE "failed"
         /\ last_ip' = ipv
         /\ last_ports' = portsv
         /\ UNCHANGED exit
    ELSE IF caller \in OneShot
    THEN /\ pc' = "exited"
         /\ exit' = IF res = "Ok" THEN "ok" ELSE "err"
         /\ UNCHANGED daemonState
    ELSE /\ pc' = "idle"
         /\ UNCHANGED <<daemonState, exit>>

\* What the caller does with the result of apply. cmd_daemon: the `?` and
\* the two assignments that follow it (ipv and portsv are its locals ip and
\* ports). add, remove and sync (sync_current_config): the `?`, a message,
\* and the command ends. The driver just takes the result.
AfterApply(res, ipv, portsv) ==
    IF caller = "daemon"
    THEN /\ pc' = IF res = "Ok" THEN "sleep" ELSE "failed"
         /\ last_ip' = IF res = "Ok" THEN ipv ELSE last_ip
         /\ last_ports' = IF res = "Ok" THEN portsv ELSE last_ports
         /\ UNCHANGED exit
    ELSE IF caller \in OneShot
    THEN /\ pc' = "exited"
         /\ exit' = IF res = "Ok" THEN "ok" ELSE "err"
         /\ UNCHANGED daemonState
    ELSE /\ pc' = "idle"
         /\ UNCHANGED <<daemonState, exit>>

\* apply returns res for the call with arguments (wip, plist).
ApplyReturn(res, wip, plist, ipv, portsv) ==
    /\ a_res' = res
    /\ lastOk' = IF res = "Ok" THEN [set |-> TRUE, ip |-> wip, ports |-> SeqSet(plist)] ELSE lastOk
    /\ fail' = IF res = "Ok" THEN fail ELSE "apply"
    /\ AfterApply(res, ipv, portsv)

\* Entry of apply(wip, plist): an empty list returns Ok at once.
ApplyEnter(wip, plist, ipv, portsv) ==
    /\ wsl_ip' = wip
    /\ a_ports' = plist
    /\ a_i' = 1
    /\ cmds' = <<>>
    /\ seen' = NoneSeen
    /\ UNCHANGED table
    /\ IF plist = <<>>
       THEN ApplyReturn("Ok", wip, plist, ipv, portsv)
       ELSE /\ pc' = "apply_delete"
            /\ a_res' = "-"
            /\ UNCHANGED <<lastOk, fail, daemonState, exit>>

\* ApplyDelete, issuing no delete command.
ApplyDelete_skip ==
    /\ pc = "apply_delete"
    /\ pc' = "apply_add"
    /\ UNCHANGED <<table, cmds, seen>>
    /\ UNCHANGED <<file, caller, daemonLocals, daemonState, applyLocals, calls, lastOk,
                   fail, prev, driverVars, cliVars, hist, ioVars, extractorVars, otherVars>>

\* The delete command of the current port; its result is dropped.
ApplyDelete ==
    /\ pc = "apply_delete"
    /\ \E out \in Outcomes :
         LET c == delete_cmd(CurrentPort)
             dropped == run_powershell(c.op, out)
         IN /\ table' = Netsh(table, c, out)
            /\ cmds' = Append(cmds, c)
            /\ seen' = See(seen, table, c, out)
            /\ pc' = "apply_add"
    /\ UNCHANGED <<file, caller, daemonLocals, daemonState, applyLocals, calls, lastOk,
                   fail, prev, driverVars, cliVars, hist, ioVars, extractorVars, otherVars>>

\* The add command of the current port; an Err ends apply.
ApplyAdd ==
    /\ pc = "apply_add"
    /\ \E out \in Outcomes :
         LET c == add_cmd(CurrentPort, wsl_ip)
             r == run_powershell(c.op, out)
         IN /\ table' = Netsh(table, c, out)
            /\ cmds' = Append(cmds, c)
            /\ seen' = See(seen, table, c, out)
            /\ IF r = "Err"
               THEN /\ ApplyReturn("Err", wsl_ip, a_ports, ip, ports)
                    /\ UNCHANGED a_i
               ELSE IF a_i = Len(a_ports)
               THEN /\ ApplyReturn("Ok", wsl_ip, a_ports, ip, ports)
                    /\ UNCHANGED a_i
               ELSE /\ a_i' = a_i + 1
                    /\ pc' = "apply_delete"
                    /\ UNCHANGED <<a_res, lastOk, fail, daemonState, exit>>
    /\ UNCHANGED <<file, caller, daemonLocals, wsl_ip, a_ports, calls, prev, driverVars,
                   arg, rules, hist, ioVars, extractorVars, otherVars>>

\* ------------------------------------------------------ cmd_daemon, steps
\* Changed, resyncing on every cycle.
Changed_always(lip, lports, ipv, portsv) == TRUE

\* Changed, looking at the address only.
Changed_ipOnly(lip, lports, ipv, portsv) == lip # ipv

\* let changed = last_ip != Some(ip) || last_ports != ports;
Changed(lip, lports, ipv, portsv) == (lip # ipv) \/ (lports # portsv)

\* get_wsl_ip: an address, or an error.
WslIpResults == IPs \cup {"Err"}

DaemonLoad ==
    /\ caller = "daemon" /\ pc = "load"
    /\ \E io \in IoOutcomes :
         LET r == load_or_default(file, io)
         IN /\ fail' = IF io = "ok" THEN fail ELSE "load"
            /\ IF r.ok
               THEN /\ cfg' = r.cfg
                    /\ loaded' = [set |-> TRUE, manual_ports |-> r.cfg.manual_ports]
                    /\ pc' = "detect"
               ELSE /\ pc' = "failed"
                    /\ UNCHANGED <<cfg, loaded>>
    /\ iolog' = Append(iolog, "read")
    /\ UNCHANGED <<file, table, caller, probe, ip, ports, changed, daemonState, applyLocals,
                   cmds, seen, calls, lastOk, prev, driverVars, cliVars, hist, extractorVars, otherVars>>

DaemonDetect ==
    /\ caller = "daemon" /\ pc = "detect"
    /\ \E pm2res \in ProbeResults, caddyres \in ProbeResults :
         LET d == detect_ports(pm2res, caddyres)
         IN /\ probe' = <<pm2res, caddyres>>
            /\ cfg' = set_detected_ports(cfg, d[1], d[2])
    /\ pc' = "save"
    /\ iolog' = Append(iolog, "probe")
    /\ UNCHANGED <<loaded, file, table, caller, ip, ports, changed, daemonState, applyLocals,
                   cmds, seen, calls, lastOk, fail, prev, driverVars, cliVars, hist, extractorVars, otherVars>>

DaemonSave ==
    /\ caller = "daemon" /\ pc = "save"
    /\ \E io \in IoOutcomes :
         LET r == save(file, cfg, io)
         IN /\ file' = r.file
            /\ pc' = IF r.ok THEN "resolve" ELSE "failed"
            /\ fail' = IF io = "ok" THEN fail ELSE "save"
    /\ iolog' = Append(iolog, "write")
    /\ UNCHANGED <<loaded, table, caller, daemonLocals, daemonState, applyLocals,
                   cmds, seen, calls, lastOk, prev, driverVars, cliVars, hist, extractorVars, otherVars>>

\* Lines 147-157 up to the first command: resolve the address, compute the
\* set, compare with the last-applied pair and call apply on a change.
DaemonResolve ==
    /\ caller = "daemon" /\ pc = "resolve"
    /\ \E r \in WslIpResults :
         IF r = "Err"
         THEN /\ pc' = "failed"
              /\ fail' = "ip"
              /\ UNCHANGED <<table, ip, ports, changed, daemonState, applyLocals, cmds, seen,
                             calls, lastOk, exit>>
         ELSE LET all == all_ports(cfg)
                  ch == Changed(last_ip, last_ports, r, all)
              IN /\ ip' = r
                 /\ ports' = all
                 /\ changed' = ch
                 /\ IF ch
                    THEN /\ calls' = calls + 1
                         /\ ApplyEnter(r, SortedSeq(all), r, all)
                    ELSE /\ pc' = "sleep"
                         /\ UNCHANGED <<table, daemonState, applyLocals, cmds, seen, calls,
                                        lastOk, fail, exit>>
    /\ iolog' = Append(iolog, "ip")
    /\ UNCHANGED <<loaded, file, caller, cfg, probe, prev, driverVars, arg, rules, hist, extractorVars, otherVars>>

\* sleep(5s), then the next iteration: the loop body's locals are gone.
DaemonSleep ==
    /\ caller = "daemon" /\ pc = "sleep"
    /\ prev' = [set |-> TRUE, ip |-> ip, ports |-> ports, calls |-> calls]
    /\ cfg' = DefaultConfig
    /\ probe' = <<NoProbe, NoProbe>>
    /\ ip' = NoIp
    /\ ports' = {}
    /\ changed' = FALSE
    /\ wsl_ip' = NoIp
    /\ a_ports' = <<>>
    /\ a_i' = 0
    /\ a_res' = "-"
    /\ cmds' = <<>>
    /\ seen' = NoneSeen
    /\ calls' = 0
    /\ loaded' = NoLoad
    /\ iolog' = <<>>
    /\ pc' = "load"
    /\ UNCHANGED <<file, table, caller, daemonState, lastOk, fail, driverVars, cliVars, hist, extractorVars, otherVars>>

\* What a specification does not use stays as it is here.
InitRest ==
    /\ loaded = NoLoad
    /\ iolog = <<>>
    /\ value = JNull
    /\ input = <<>>
    /\ outp = {}
    /\ o_arg = 0
    /\ o_exit = "-"

InitCommon ==
    /\ cfg = DefaultConfig
    /\ probe = <<NoProbe, NoProbe>>
    /\ ip = NoIp
    /\ ports = {}
    /\ changed = FALSE
    /\ last_ip = NoIp
    /\ last_ports = {}
    /\ wsl_ip = NoIp
    /\ a_ports = <<>>
    /\ a_i = 0
    /\ a_res = "-"
    /\ cmds = <<>>
    /\ seen = NoneSeen
    /\ calls = 0
    /\ lastOk = NoPair
    /\ fail = "none"
    /\ prev = NoPrev
    /\ rerun = FALSE
    /\ arg = 0
    /\ exit = "-"
    /\ rules = "-"
    /\ hist = <<>>
    /\ InitRest

\* The daemon starts on a host without rules; the registry holds what
\* earlier commands left in it.
InitDaemon ==
    /\ InitCommon
    /\ caller = "daemon"
    /\ pc = "load"
    /\ file \in PortsConfig
    /\ table = EmptyTable
    /\ table0 = EmptyTable

NextDaemon == DaemonLoad \/ DaemonDetect \/ DaemonSave \/ DaemonResolve
              \/ ApplyDelete \/ ApplyAdd \/ DaemonSleep

SpecDaemon == InitDaemon /\ [][NextDaemon]_vars

\* ------------------------------------------------- direct calls of apply
\* apply_portproxy_rules called on any table with any address and any
\* ascending list of distinct ports (what its callers pass).
ApplyCall ==
    /\ caller = "driver" /\ pc = "idle"
    /\ \E wip \in IPs, S \in SUBSET Ports :
         /\ rerun' = (a_res = "Ok" /\ wsl_ip = wip /\ a_ports = SortedSeq(S))
         /\ table0' = table
         /\ ApplyEnter(wip, SortedSeq(S), wip, S)
    /\ UNCHANGED <<file, caller, daemonLocals, calls, prev, arg, rules, hist, ioVars, extractorVars, otherVars>>

InitApply ==
    /\ InitCommon
    /\ caller = "driver"
    /\ pc = "idle"
    /\ file = DefaultConfig
    /\ table \in Tables
    /\ table0 = table

NextApply == ApplyCall \/ ApplyDelete \/ ApplyAdd

SpecApply == InitApply /\ [][NextApply]_vars

\* ------------------------------------ status, add, remove, sync: steps
\* ensure_valid_port, accepting every port.
ensure_valid_port_any(port) == TRUE

\* ensure_valid_port
ensure_valid_port(port) == port # 0

\* The port a command is given: a u16 for add and remove, none otherwise.
PortArgs(c) == IF c \in {"add", "remove"} THEN 0..MaxPort ELSE {0}

\* What the command does to the loaded registry before detecting:
\* cmd_add inserts its port, cmd_remove removes it.
Mutated(c, cfgv, port) ==
    IF c = "add" THEN add_manual_port(cfgv, port).cfg
    ELSE IF c = "remove" THEN remove_manual_port(cfgv, port).cfg
    ELSE cfgv

\* run_powershell_capture: Ok with the output, or Err.
run_powershell_capture(out) == IF out = "success" THEN "Ok" ELSE "Err"

\* A command is started from the shell; add and remove check their port
\* before anything else.
CliStart ==
    /\ caller = "shell" /\ pc = "shell"
    /\ \E c \in OneShot : \E port \in PortArgs(c) :
         /\ caller' = c
         /\ arg' = port
         /\ IF c \in {"add", "remove"} /\ ~ensure_valid_port(port)
            THEN /\ pc' = "exited"
                 /\ exit' = "err"
                 /\ fail' = "port"
            ELSE /\ pc' = "load"
                 /\ UNCHANGED <<exit, fail>>
    /\ UNCHANGED <<file, table, daemonLocals, daemonState, applyLocals, cmds, seen, calls,
                   lastOk, prev, driverVars, rules, hist, ioVars, extractorVars, otherVars>>

CliLoad ==
    /\ caller \in OneShot /\ pc = "load"
    /\ \E io \in IoOutcomes :
         LET r == load_or_default(file, io)
         IN /\ fail' = IF io = "ok" THEN fail ELSE "load"
            /\ IF r.ok
               THEN /\ cfg' = Mutated(caller, r.cfg, arg)
                    /\ loaded' = [set |-> TRUE, manual_ports |-> r.cfg.manual_ports]
                    /\ pc' = "detect"
                    /\ UNCHANGED exit
               ELSE /\ pc' = "exited"
                    /\ exit' = "err"
                    /\ UNCHANGED <<cfg, loaded>>
    /\ iolog' = Append(iolog, "read")
    /\ UNCHANGED <<file, table, caller, probe, ip, ports, changed, daemonState, applyLocals,
                   cmds, seen, calls, lastOk, prev, driverVars, arg, rules, hist, extractorVars, otherVars>>

\* detect_ports, set_detected_ports and save, which follow each other in
\* every command. A failed save returns from the command: its locals are
\* dropped.
CliDetectSave ==
    /\ caller \in OneShot /\ pc = "detect"
    /\ \E pm2res \in ProbeResults, caddyres \in ProbeResults, io \in IoOutcomes :
         LET d == detect_ports(pm2res, caddyres)
             c == set_detected_ports(cfg, d[1], d[2])
             r == save(file, c, io)
         IN /\ file' = r.file
            /\ fail' = IF io = "ok" THEN fail ELSE "save"
            /\ IF r.ok
               THEN /\ probe' = <<pm2res, caddyres>>
                    /\ cfg' = c
                    /\ pc' = "resolve"
                    /\ UNCHANGED exit
               ELSE /\ probe' = <<NoProbe, NoProbe>>
                    /\ cfg' = DefaultConfig
                    /\ pc' = "exited"
                    /\ exit' = "err"
    /\ iolog' = iolog \o <<"probe", "write">>
    /\ UNCHANGED <<loaded, table, caller, ip, ports, changed, daemonState, applyLocals,
                   cmds, seen, calls, lastOk, prev, driverVars, arg, rules, hist, extractorVars, otherVars>>

\* cmd_status: get_wsl_ip and all_ports, then on to the listing.
\* add, remove, sync: sync_current_config up to the first command.
\* A failed get_wsl_ip returns from the command: its locals are dropped.
CliResolve ==
    /\ caller \in OneShot /\ pc = "resolve"
    /\ \E r \in WslIpResults :
         IF r = "Err"
         THEN /\ pc' = "exited"
              /\ exit' = "err"
              /\ fail' = "ip"
              /\ cfg' = DefaultConfig
              /\ probe' = <<NoProbe, NoProbe>>
              /\ UNCHANGED <<table, ip, ports, daemonState, applyLocals, cmds, seen,
                             calls, lastOk>>
         ELSE LET all == all_ports(cfg)
              IN /\ ip' = r
                 /\ ports' = all
                 /\ UNCHANGED <<cfg, probe>>
                 /\ IF caller = "status"
                    THEN /\ pc' = "show"
                         /\ UNCHANGED <<table, daemonState, applyLocals, cmds, seen, calls,
                                        lastOk, fail, exit>>
                    ELSE /\ calls' = calls + 1
                         /\ ApplyEnter(r, SortedSeq(all), r, all)
    /\ iolog' = Append(iolog, "ip")
    /\ UNCHANGED <<loaded, file, caller, changed, prev, driverVars, arg, rules, hist, extractorVars, otherVars>>

\* CliShow, with a failed listing ending the command with an error.
CliShow_fatal ==
    /\ caller = "status" /\ pc = "show"
    /\ \E out \in Outcomes :
         /\ rules' = IF run_powershell_capture(out) = "Ok"
                     THEN "listing"
                     ELSE "Could not fetch netsh mappings"
         /\ exit' = IF run_powershell_capture(out) = "Ok" THEN "ok" ELSE "err"
    /\ pc' = "exited"
    /\ iolog' = Append(iolog, "show")
    /\ UNCHANGED <<loaded, file, table, caller, daemonLocals, daemonState, applyLocals, cmds, seen,
                   calls, lastOk, fail, prev, driverVars, arg, hist, extractorVars, otherVars>>

\* cmd_status: show_portproxy; an Err becomes a line of the report.
CliShow ==
    /\ caller = "status" /\ pc = "show"
    /\ \E out \in Outcomes :
         rules' = IF run_powershell_capture(out) = "Ok"
                  THEN "listing"
                  ELSE "Could not fetch netsh mappings"
    /\ pc' = "exited"
    /\ exit' = "ok"
    /\ iolog' = Append(iolog, "show")
    /\ UNCHANGED <<loaded, file, table, caller, daemonLocals, daemonState, applyLocals, cmds, seen,
                   calls, lastOk, fail, prev, driverVars, arg, hist, extractorVars, otherVars>>

\* The process ends: nothing of it is left but the file and the table.
CliExit ==
    /\ caller \in OneShot /\ pc = "exited"
    /\ caller' = "shell"
    /\ pc' = "shell"
    /\ cfg' = DefaultConfig
    /\ probe' = <<NoProbe, NoProbe>>
    /\ ip' = NoIp
    /\ ports' = {}
    /\ wsl_ip' = NoIp
    /\ a_ports' = <<>>
    /\ a_i' = 0
    /\ a_res' = "-"
    /\ cmds' = <<>>
    /\ seen' = NoneSeen
    /\ calls' = 0
    /\ lastOk' = NoPair
    /\ fail' = "none"
    /\ arg' = 0
    /\ exit' = "-"
    /\ rules' = "-"
    /\ loaded' = NoLoad
    /\ iolog' = <<>>
    /\ UNCHANGED <<file, table, changed, daemonState, prev, driverVars, hist, extractorVars, otherVars>>

\* One-shot commands run one after the other on a fresh host: no registry
\* file, no forwarding rule.
InitCli ==
    /\ InitCommon
    /\ caller = "shell"
    /\ pc = "shell"
    /\ file = DefaultConfig
    /\ table = EmptyTable
    /\ table0 = EmptyTable

NextCli == CliStart \/ CliLoad \/ CliDetectSave \/ CliResolve \/ CliShow
           \/ ApplyDelete \/ ApplyAdd \/ CliExit

SpecCli == InitCli /\ [][NextCli]_vars

\* ------------------------------------------- any invocation of the tool
\* The tool is run either as the daemon or as one-shot commands, one after
\* the other; never two at a time.
InitTool == InitCli \/ InitDaemon

NextTool == NextCli \/ NextDaemon

SpecTool == InitTool /\ [][NextTool]_vars

\* ------------------------------------ `add` run beside the daemon (no lock)
\* apply_portproxy_rules(wip, plist) run from table t to its end: the tables
\* and results it can end with, over all outcomes of its commands.
RECURSIVE apply_portproxy_rules(_, _, _, _)
apply_portproxy_rules(t, wip, plist, i) ==
    IF i > Len(plist) THEN {[table |-> t, res |-> "Ok"]}
    ELSE UNION {
           LET t1 == Netsh(t, delete_cmd(plist[i]), od)
               t2 == Netsh(t1, add_cmd(plist[i], wip), oa)
           IN IF run_powershell("add", oa) = "Err"
              THEN {[table |-> t2, res |-> "Err"]}
              ELSE apply_portproxy_rules(t2, wip, plist, i + 1)
           : <<od, oa>> \in Outcomes \X Outcomes }

\* cmd_add(port) run to its end on file f and table t: the files, tables
\* and results it can end with, over all outcomes of its I/O.
cmd_add(f, t, port) ==
    IF ~ensure_valid_port(port) THEN {[file |-> f, table |-> t, exit |-> "err"]}
    ELSE UNION {
           LET l == load_or_default(f, lo)
               d == detect_ports(pm2res, caddyres)
               c == set_detected_ports(add_manual_port(l.cfg, port).cfg, d[1], d[2])
               w == save(f, c, so)
           IN IF ~l.ok THEN {[file |-> f, table |-> t, exit |-> "err"]}
              ELSE IF ~w.ok THEN {[file |-> w.file, table |-> t, exit |-> "err"]}
              ELSE IF r = "Err" THEN {[file |-> w.file, table |-> t, exit |-> "err"]}
              ELSE {[file |-> w.file, table |-> a.table,
                     exit |-> IF a.res = "Ok" THEN "ok" ELSE "err"]
                    : a \in apply_portproxy_rules(t, r, SortedSeq(all_ports(c)), 1)}
           : <<lo, pm2res, caddyres, so, r>> \in
               IoOutcomes \X ProbeResults \X ProbeResults \X IoOutcomes \X WslIpResults }

\* While the daemon runs, `add port` is run once from a shell, from its
\* start to its end between two steps of the daemon.
RaceAdd ==
    /\ caller = "daemon" /\ o_exit = "-"
    /\ \E port \in PortArgs("add") : \E e \in cmd_add(file, table, port) :
         /\ o_arg' = port
         /\ o_exit' = e.exit
         /\ file' = e.file
         /\ table' = e.table
    /\ UNCHANGED <<caller, pc, daemonLocals, daemonState, applyLocals, cmds, seen,
                   calls, lastOk, fail, prev, driverVars, cliVars, hist, ioVars, extractorVars>>

\* cmd_daemon, lines 147-160, in one step: get_wsl_ip, the comparison, the
\* apply run to its end, the two assignments, the sleep and the next
\* iteration. What observes the single commands is left as it is.
RaceDaemonSync ==
    /\ caller = "daemon" /\ pc = "resolve"
    /\ \E r \in WslIpResults :
         IF r = "Err"
         THEN /\ pc' = "failed"
              /\ fail' = "ip"
              /\ UNCHANGED <<table, cfg, probe, loaded, daemonState>>
              /\ iolog' = Append(iolog, "ip")
         ELSE LET all == all_ports(cfg)
              IN IF Changed(last_ip, last_ports, r, all)
                 THEN \E a \in apply_portproxy_rules(table, r, SortedSeq(all), 1) :
                        /\ table' = a.table
                        /\ IF a.res = "Ok"
                           THEN /\ last_ip' = r
                                /\ last_ports' = all
                                /\ pc' = "load"
                                /\ cfg' = DefaultConfig
                                /\ probe' = <<NoProbe, NoProbe>>
                                /\ loaded' = NoLoad
                                /\ iolog' = <<>>
                                /\ UNCHANGED fail
                           ELSE /\ pc' = "failed"
                                /\ fail' = "apply"
                                /\ iolog' = Append(iolog, "ip")
                                /\ UNCHANGED <<cfg, probe, loaded, daemonState>>
                 ELSE /\ pc' = "load"
                      /\ cfg' = DefaultConfig
                      /\ probe' = <<NoProbe, NoProbe>>
                      /\ loaded' = NoLoad
                      /\ iolog' = <<>>
                      /\ UNCHANGED <<table, daemonState, fail>>
    /\ UNCHANGED <<file, caller, ip, ports, changed, applyLocals, cmds, seen, calls, lastOk,
                   prev, driverVars, cliVars, hist, extractorVars, otherVars>>

\* The daemon is started on a fresh host: no registry file, no rule.
InitRace == InitDaemon /\ file = DefaultConfig

NextRace == DaemonLoad \/ DaemonDetect \/ DaemonSave \/ RaceDaemonSync \/ RaceAdd

SpecRace == InitRace /\ [][NextRace]_vars

\* ------------------------------------------------- registry calls, alone
\* The last two calls.
Last2(h) == IF Len(h) > 2 THEN Tail(h) ELSE h

Called(op, port) == [op |-> op, port |-> port, before |-> cfg.manual_ports]

RegAdd ==
    /\ caller = "registry"
    /\ \E port \in Ports :
         /\ cfg' = add_manual_port(cfg, port).cfg
         /\ hist' = Last2(Append(hist, Called("add", port)))
    /\ UNCHANGED <<file, table, caller, pc, probe, ip, ports, changed, daemonState, applyLocals,
                   cmds, seen, calls, lastOk, fail, prev, driverVars, cliVars, ioVars, extractorVars, otherVars>>

RegRemove ==
    /\ caller = "registry"
    /\ \E port \in Ports :
         /\ cfg' = remove_manual_port(cfg, port).cfg
         /\ hist' = Last2(Append(hist, Called("remove", port)))
    /\ UNCHANGED <<file, table, caller, pc, probe, ip, ports, changed, daemonState, applyLocals,
                   cmds, seen, calls, lastOk, fail, prev, driverVars, cliVars, ioVars, extractorVars, otherVars>>

RegSetDetected ==
    /\ caller = "registry"
    /\ \E pm2 \in SUBSET Ports, caddy \in SUBSET Ports :
         /\ cfg' = set_detected_ports(cfg, pm2, caddy)
         /\ hist' = Last2(Append(hist, Called("set_detected", 0)))
    /\ UNCHANGED <<file, table, caller, pc, probe, ip, ports, changed, daemonState, applyLocals,
                   cmds, seen, calls, lastOk, fail, prev, driverVars, cliVars, ioVars, extractorVars, otherVars>>

\* The registry's methods called in any order on any registry.
InitRegistry ==
    /\ caller = "registry"
    /\ pc = "registry"
    /\ file = DefaultConfig
    /\ table = EmptyTable
    /\ table0 = EmptyTable
    /\ cfg \in PortsConfig
    /\ probe = <<NoProbe, NoProbe>>
    /\ ip = NoIp
    /\ ports = {}
    /\ changed = FALSE
    /\ last_ip = NoIp
    /\ last_ports = {}
    /\ wsl_ip = NoIp
    /\ a_ports = <<>>
    /\ a_i = 0
    /\ a_res = "-"
    /\ cmds = <<>>
    /\ seen = NoneSeen
    /\ calls = 0
    /\ lastOk = NoPair
    /\ fail = "none"
    /\ prev = NoPrev
    /\ rerun = FALSE
    /\ arg = 0
    /\ exit = "-"
    /\ rules = "-"
    /\ hist = <<>>
    /\ InitRest

NextRegistry == RegAdd \/ RegRemove \/ RegSetDetected

SpecRegistry == InitRegistry /\ [][NextRegistry]_vars

\* ------------------------------------------------ daemon loop: properties
Ascending(s) == \A i \in 1..Len(s), j \in 1..Len(s) : i < j => s[i] < s[j]

\* The cycle has resolved its address and computed its pair.
Resolved == caller = "daemon" /\ ip # NoIp

\* C1: a cycle whose resolved address and all-ports set equal the
\* last-applied pair issues no delete and no add command and does not call
\* apply; two consecutive cycles that compute the same pair call apply at
\* most once between them.
C1_UnchangedCycleIssuesNothing ==
    /\ [][(pc = "resolve" /\ ip' # NoIp /\ ip' = last_ip /\ ports' = last_ports)
            => (pc' = "sleep" /\ table' = table /\ cmds' = <<>> /\ calls' = 0
                /\ UNCHANGED daemonState)]_vars
    /\ []((Resolved /\ prev.set /\ prev.ip = ip /\ prev.ports = ports)
            => prev.calls + calls <= 1)

\* C1 witness: a cycle that found the pair of the previous cycle, which had
\* applied a non-empty port list, ends without a command.
C1_Witness ==
    /\ pc = "sleep" /\ Resolved /\ ~changed
    /\ prev.set /\ prev.calls = 1 /\ prev.ip = ip /\ prev.ports = ports /\ ports # {}
    /\ cmds = <<>> /\ calls = 0

\* C2: a cycle whose address or all-ports set differs from the last-applied
\* pair (the first cycle included) calls apply exactly once, with the new
\* address and the whole all-ports set in ascending order.
C2_ChangedCycleAppliesOnce ==
    /\ [][(pc = "resolve" /\ ip' # NoIp
             /\ (ip' # last_ip
                 \/ last_ports # cfg.manual_ports \cup cfg.pm2_ports \cup cfg.caddy_ports))
            => (/\ calls' = 1
                /\ wsl_ip' = ip'
                /\ Ascending(a_ports')
                /\ SeqSet(a_ports') = cfg.manual_ports \cup cfg.pm2_ports \cup cfg.caddy_ports)]_vars
    /\ [](caller = "daemon" => calls <= 1)

\* C2 witness: the address stayed and a port went away; the cycle applied
\* the whole remaining list, not the difference.
C2_Witness ==
    /\ pc = "sleep" /\ Resolved /\ changed /\ calls = 1
    /\ prev.set /\ prev.ip = ip /\ prev.ports # ports
    /\ Len(a_ports) >= 2 /\ SeqSet(a_ports) \cap prev.ports # {}

\* C7: DaemonState is empty at the start and always equals the arguments of
\* the most recent apply that returned Ok; it changes only in the step in
\* which apply returns Ok, so a cycle that fails leaves it as it was.
C7_DaemonStateIsLastSuccess ==
    /\ [](caller = "daemon"
            => lastOk = [set |-> last_ip # NoIp, ip |-> last_ip, ports |-> last_ports])
    /\ []((caller = "daemon" /\ ~lastOk.set) => (last_ip = NoIp /\ last_ports = {}))
    /\ [][(last_ip' # last_ip \/ last_ports' # last_ports)
            => (a_res' = "Ok" /\ pc' = "sleep"
                /\ last_ip' = wsl_ip' /\ last_ports' = SeqSet(a_ports'))]_vars
    /\ [][(fail = "none" /\ fail' # "none") => UNCHANGED daemonState]_vars

\* C7 witness: a failed apply after an earlier successful one with other
\* arguments: DaemonState still holds the earlier pair.
C7_Witness ==
    /\ pc = "failed" /\ fail = "apply" /\ a_res = "Err"
    /\ lastOk.set /\ last_ip = lastOk.ip
    /\ (wsl_ip # last_ip \/ SeqSet(a_ports) # last_ports)

\* C8: a failed load, save, address resolution or apply ends the loop: the
\* loop is at its end whenever one of them failed, and nothing happens after
\* that; the detection step always goes on to the save, whatever the probes
\* returned.
C8_FatalErrorsStopTheLoop ==
    /\ [](fail # "none" => pc = "failed")
    /\ [](pc = "failed" => fail \in {"load", "save", "ip", "apply"})
    /\ [][pc # "failed"]_vars
    /\ [][pc = "detect" => pc' = "save"]_vars

\* C8 witness: in a later cycle one probe failed, the cycle went on, and the
\* cycle's apply failed: the loop has ended.
C8_Witness ==
    /\ pc = "failed" /\ fail = "apply" /\ prev.set
    /\ ~probe[1].ok /\ probe[2].ok /\ cmds # <<>>

\* The detection step of this cycle or command is done, and its locals
\* are still there (a one-shot command drops them when its save or its
\* address resolution fails).
Detected ==
    /\ caller \in {"daemon"} \cup OneShot
    /\ pc \notin {"load", "detect"}
    /\ fail \notin {"load", "port"}
    /\ caller \in OneShot => fail \notin {"save", "ip"}

\* The save of this cycle or command succeeded.
Saved == Detected /\ pc # "save" /\ fail # "save"

ProbeSet(i) == IF probe[i].ok THEN probe[i].ports ELSE {}

\* C9: after the detection step the registry's two discovered sets are
\* exactly what this cycle's probes returned (nothing of an earlier cycle
\* survives), all_ports is the manual set plus these, the saved file holds
\* the same sets, and replacing the discovered sets by empty ones leaves
\* all_ports equal to the manual set.
C9_DetectedSetsAreReplaced ==
    /\ Detected =>
         /\ cfg.pm2_ports = ProbeSet(1)
         /\ cfg.caddy_ports = ProbeSet(2)
         /\ all_ports(cfg) = cfg.manual_ports \cup ProbeSet(1) \cup ProbeSet(2)
         /\ all_ports(set_detected_ports(cfg, {}, {})) = cfg.manual_ports
    /\ Saved =>
         /\ file.pm2_ports = ProbeSet(1)
         /\ file.caddy_ports = ProbeSet(2)
         /\ file.manual_ports = cfg.manual_ports

\* C9 witness: a port the previous cycle had discovered is gone from the
\* saved registry, while a manual port stays.
C9_Witness ==
    /\ Saved /\ prev.set /\ pc = "resolve"
    /\ prev.ports \ all_ports(file) # {}
    /\ file.manual_ports # {}
    /\ file.pm2_ports # {} /\ file.pm2_ports # file.caddy_ports

\* ------------------------------------------ rule synchronizer: properties
\* apply has returned (no call is in progress).
Returned == pc \notin {"apply_delete", "apply_add"} /\ a_res # "-"

IsAdd(k) == cmds[k].op = "add"

IsDelete(k) == cmds[k].op = "delete"

RuleTo(a, p) == [connectaddress |-> a, connectport |-> p]

\* C3 as stated: after a successful apply the table holds a rule for exactly
\* the ports of the list, each to the guest address on the same port.
C3_TableMatchesDesired ==
    (Returned /\ a_res = "Ok") =>
        \A p \in Ports :
            table[p] = IF p \in SeqSet(a_ports) THEN RuleTo(wsl_ip, p) ELSE NoRule

\* C4: the commands of a call are, in list order, a delete for the port on
\* the wildcard address and then an add for the same port; a port's commands
\* come only after the adds before it succeeded, and a failed add is the
\* last command of the call.
C4_DeleteThenAddInListOrder ==
    /\ Len(cmds) <= 2 * Len(a_ports)
    /\ \A k \in 1..Len(cmds) :
         /\ cmds[k].op = IF k % 2 = 1 THEN "delete" ELSE "add"
         /\ cmds[k].listenport = a_ports[(k + 1) \div 2]
         /\ cmds[k].listenaddress = Wildcard
    /\ pc = "apply_delete" => (Len(cmds) = 2 * (a_i - 1) /\ seen.addsOk)
    /\ pc = "apply_add" => (Len(cmds) = 2 * a_i - 1 /\ seen.addsOk)
    /\ (Returned /\ a_res = "Ok") => Len(cmds) = 2 * Len(a_ports)
    /\ (Returned /\ ~seen.addsOk) => (a_res = "Err" /\ Len(cmds) = 2 * a_i)

\* C4 witness: a list of two ports whose first add failed: one delete and
\* one add, both for the first port, and nothing for the second.
C4_Witness ==
    /\ Returned /\ a_res = "Err" /\ ~seen.addsOk /\ Len(a_ports) = 2 /\ Len(cmds) = 2
    /\ IsDelete(1) /\ IsAdd(2) /\ cmds[2].listenport = a_ports[1]

\* C5: apply returns Ok exactly if every add it issued succeeded; a delete,
\* however it ended, is followed by the add for the same port and never
\* ends the call.
C5_OnlyAddFailuresAreFatal ==
    /\ Returned => ((a_res = "Ok") <=> seen.addsOk)
    /\ (pc \in {"apply_delete", "apply_add"}) => (a_res = "-" /\ seen.addsOk)
    /\ \A k \in 1..Len(cmds) :
         IsDelete(k) =>
            IF k = Len(cmds) THEN pc = "apply_add"
            ELSE IsAdd(k + 1) /\ cmds[k + 1].listenport = cmds[k].listenport

\* C5 witness: one delete could not be launched, another exited nonzero,
\* and apply still returned Ok.
C5_Witness ==
    /\ Returned /\ a_res = "Ok" /\ Len(cmds) >= 4
    /\ seen.delFaults = {"launchfail", "nonzero"}

\* C6: after a successful apply every port of the list has its rule to the
\* guest address on the same port, whatever rule it had before; the same
\* apply run again returns Ok unless a command meets a fault, and when it
\* returns Ok the table is as the first run left it.
C6_ApplyIsIdempotent ==
    /\ (Returned /\ a_res = "Ok") =>
          \A p \in SeqSet(a_ports) : table[p] = RuleTo(wsl_ip, p)
    /\ (Returned /\ caller = "driver" /\ rerun) =>
          /\ seen.clean => a_res = "Ok"
          /\ a_res = "Ok" => table = table0

\* C6 witness: a second run of a successful apply of two ports, which
\* deleted and re-added both rules.
C6_Witness ==
    /\ Returned /\ caller = "driver" /\ rerun /\ seen.clean
    /\ a_res = "Ok" /\ Len(a_ports) >= 2 /\ Len(cmds) = 2 * Len(a_ports)
    /\ seen.delFaults = {} /\ table = table0

\* ------------------------------------------------- registry: properties
\* The last two calls were add_manual_port(p) and then remove_manual_port(p).
AddThenRemove ==
    /\ Len(hist) = 2
    /\ hist[1].op = "add" /\ hist[2].op = "remove"
    /\ hist[1].port = hist[2].port

\* C10 as stated: add_manual_port(p) followed by remove_manual_port(p)
\* leaves the manual set as it was before the add, also when p was in it.
C10_AddThenRemoveRestores ==
    AddThenRemove => cfg.manual_ports = hist[1].before

\* C10, amended: add_manual_port(p) followed by remove_manual_port(p) leaves
\* the manual set as it was before the add when p was not in it, and leaves
\* it without p when p was in it.
C10_AddThenRemoveRestoresNewPort ==
    AddThenRemove =>
        /\ hist[1].port \notin hist[1].before => cfg.manual_ports = hist[1].before
        /\ hist[1].port \in hist[1].before =>
              cfg.manual_ports = {q \in hist[1].before : q # hist[1].port}

\* C10 witness: a port that was not in a non-empty manual set was added and
\* removed again.
C10_Witness ==
    /\ AddThenRemove
    /\ hist[1].port \notin hist[1].before /\ hist[1].before # {}
    /\ hist[2].before = hist[1].before \cup {hist[1].port}
    /\ cfg.manual_ports = hist[1].before

\* --------------------------------------------- the extractors, called alone
\* Keys of the documents: two that name a port, in mixed and in upper case,
\* and one that does not.
Key_Port == <<"P", "o", "r", "t">>

Key_LISTEN_PORT == <<"L", "I", "S", "T", "E", "N", "_", "P", "O", "R", "T">>

Keys == {Key_Port, Key_LISTEN_PORT, K_listen}

\* Numbers of the documents: a negative one, 0, two ports, and u16::MAX + 1.
JsonNumbers == {JNum(0 - 1), JNum(0), JNum(80), JNum(U16Max), JNum(U16Max + 1)}

\* A string value, ":80".
JsonString == JStr(<<":", "8", "0">>)

JsonLeaves == JsonNumbers \cup {JNull, JsonString}

Max(S) == CHOOSE x \in S : \A y \in S : y <= x

\* How many containers nest in a value.
RECURSIVE Depth(_)
Depth(v) ==
    IF v.t = "obj" THEN 1 + Max({0} \cup {Depth(v.map[k]) : k \in DOMAIN v.map})
    ELSE IF v.t = "arr" THEN 1 + Max({0} \cup {Depth(v.items[i]) : i \in 1..Len(v.items)})
    ELSE 0

\* The documents that hold v: in an array, alone or after a leaf, and in an
\* object, alone or beside a leaf under another key.
Wraps(v) ==
    {JArr(<<v>>)}
    \cup {JArr(<<x, v>>) : x \in JsonLeaves \ {JNull}}
    \cup {JObj(k :> v) : k \in Keys}
    \cup {JObj((k :> v) @@ (j :> x)) : <<k, j, x>> \in
             {w \in Keys \X Keys \X (JsonLeaves \ {JNull}) : w[1] # w[2]}}

\* A document grows by one level.
JsonWrap ==
    /\ caller = "json" /\ pc = "value"
    /\ Depth(value) < JsonDepth
    /\ value' \in Wraps(value)
    /\ UNCHANGED <<file, table, caller, pc, daemonLocals, daemonState, applyLocals, cmds, seen,
                   calls, lastOk, fail, prev, driverVars, cliVars, hist, ioVars, input, outp,
                   otherVars>>

\* collect_ports_from_json(&value, &mut ports) on an empty set, as the two
\* probes call it.
JsonCollect ==
    /\ caller = "json" /\ pc = "value"
    /\ outp' = collect_ports_from_json(value, {})
    /\ pc' = "done"
    /\ UNCHANGED <<file, table, caller, daemonLocals, daemonState, applyLocals, cmds, seen,
                   calls, lastOk, fail, prev, driverVars, cliVars, hist, ioVars, value, input,
                   otherVars>>

InitExtractor ==
    /\ file = DefaultConfig
    /\ table = EmptyTable
    /\ table0 = EmptyTable
    /\ cfg = DefaultConfig
    /\ probe = <<NoProbe, NoProbe>>
    /\ ip = NoIp
    /\ ports = {}
    /\ changed = FALSE
    /\ last_ip = NoIp
    /\ last_ports = {}
    /\ wsl_ip = NoIp
    /\ a_ports = <<>>
    /\ a_i = 0
    /\ a_res = "-"
    /\ cmds = <<>>
    /\ seen = NoneSeen
    /\ calls = 0
    /\ lastOk = NoPair
    /\ fail = "none"
    /\ prev = NoPrev
    /\ rerun = FALSE
    /\ arg = 0
    /\ exit = "-"
    /\ rules = "-"
    /\ hist = <<>>
    /\ loaded = NoLoad
    /\ iolog = <<>>
    /\ o_arg = 0
    /\ o_exit = "-"

InitJson ==
    /\ InitExtractor
    /\ caller = "json"
    /\ pc = "value"
    /\ value \in JsonLeaves \cup {JArr(<<>>), JObj(<<>>)}
    /\ input = <<>>
    /\ outp = {}

NextJson == JsonWrap \/ JsonCollect

SpecJson == InitJson /\ [][NextJson]_vars

\* The pieces strings are made of.
Tokens ==
    { <<":">>, <<"/">>, <<"+">>, <<"0">>,
      <<"8", "0", "8", "0">>, <<"3", "0", "0", "0">>,
      <<"6", "5", "5", "3", "5">>, <<"6", "5", "5", "3", "6">>,
      <<"0", ".", "0", ".", "0", ".", "0">>,
      <<"n", "o", "-", "c", "o", "l", "o", "n", "-", "h", "e", "r", "e">> }

RECURSIVE Concat(_)
Concat(ts) == IF ts = <<>> THEN <<>> ELSE Head(ts) \o Concat(Tail(ts))

Inputs == {Concat(ts) : ts \in UNION {[1..n -> Tokens] : n \in 0..MaxTokens}}

StringExtract ==
    /\ caller = "string" /\ pc = "input"
    /\ outp' = extract_ports_from_string(input)
    /\ pc' = "done"
    /\ UNCHANGED <<file, table, caller, daemonLocals, daemonState, applyLocals, cmds, seen,
                   calls, lastOk, fail, prev, driverVars, cliVars, hist, ioVars, value, input,
                   otherVars>>

InitString ==
    /\ InitExtractor
    /\ caller = "string"
    /\ pc = "input"
    /\ value = JNull
    /\ input \in Inputs
    /\ outp = <<>>

NextString == StringExtract

SpecString == InitString /\ [][NextString]_vars

\* ------------------------------------------- single invocation: properties
\* The manual set a command is to leave behind, given the one it loaded.
ManualAfter(c, m, p) ==
    IF c = "add" THEN m \cup {p}
    ELSE IF c = "remove" THEN {q \in m : q # p}
    ELSE m

\* The step is a save of the registry.
SaveStep == Len(iolog') > Len(iolog) /\ iolog'[Len(iolog')] = "write"

\* C11: within one invocation the persisted manual set changes only through
\* add and remove: every successful save of status, sync and a daemon cycle
\* writes the manual set the command loaded, add p writes it plus p, remove p
\* writes it minus p, and no other step changes the file.
C11_ManualSetChangesOnlyByAddRemove ==
    /\ [][file' # file => (SaveStep /\ fail' # "save")]_vars
    /\ [][(SaveStep /\ fail' # "save")
            => (/\ loaded.set
                /\ loaded.manual_ports = file.manual_ports
                /\ file'.manual_ports = ManualAfter(caller, loaded.manual_ports, arg))]_vars
    /\ [][file'.manual_ports # file.manual_ports => caller \in {"add", "remove"}]_vars

\* C11 witness: status saved a registry whose discovered sets it changed and
\* whose manual set, not empty, is the one it loaded.
C11_Witness ==
    /\ caller = "status" /\ pc = "show" /\ loaded.set
    /\ loaded.manual_ports # {} /\ file.manual_ports = loaded.manual_ports
    /\ file.pm2_ports # {} /\ file.pm2_ports # file.manual_ports

\* C12: add 0 and remove 0 end at once with an error and without any I/O:
\* the registry is neither read nor written, no probe runs, the address is
\* not resolved, no command is issued, and the file and the table are as
\* they were.
C12_ZeroPortRejectedBeforeIo ==
    /\ [][(caller = "shell" /\ caller' \in {"add", "remove"} /\ arg' = 0)
            => (pc' = "exited" /\ exit' = "err" /\ file' = file /\ table' = table)]_vars
    /\ []((caller \in {"add", "remove"} /\ arg = 0)
            => (/\ pc = "exited" /\ exit = "err"
                /\ iolog = <<>> /\ ~loaded.set
                /\ cmds = <<>> /\ calls = 0 /\ ip = NoIp /\ wsl_ip = NoIp))

\* C12 witness: add 0 has failed on a host that has a registry with a manual
\* port and a forwarding rule.
C12_Witness ==
    /\ caller = "add" /\ arg = 0 /\ pc = "exited" /\ exit = "err" /\ iolog = <<>>
    /\ file.manual_ports # {} /\ table # EmptyTable

\* C13: the detection step never fails and each of its two sets depends on
\* its own probe only: whatever the two probes returned, the step goes on,
\* and each set is the probe's set when the probe succeeded and empty when
\* it failed, whatever the other probe did.
C13_DetectionNeverFailsProbesIndependent ==
    /\ [][(caller = "daemon" /\ pc = "detect")
            => (/\ pc' = "save" /\ fail' = fail
                /\ probe' \in ProbeResults \X ProbeResults
                /\ cfg'.pm2_ports = (IF probe'[1].ok THEN probe'[1].ports ELSE {})
                /\ cfg'.caddy_ports = (IF probe'[2].ok THEN probe'[2].ports ELSE {}))]_vars
    /\ \A a \in ProbeResults, b \in ProbeResults, c \in ProbeResults :
            /\ detect_ports(a, b)[1] = detect_ports(a, c)[1]
            /\ detect_ports(b, a)[2] = detect_ports(c, a)[2]
            /\ detect_ports(a, b) = <<IF a.ok THEN a.ports ELSE {}, IF b.ok THEN b.ports ELSE {}>>

\* C13 witness: the process-manager probe failed and the proxy probe found
\* ports: the cycle goes on with an empty first set and the proxy's ports.
C13_Witness ==
    /\ caller = "daemon" /\ pc = "save" /\ fail = "none"
    /\ ~probe[1].ok /\ probe[2].ok /\ probe[2].ports # {}
    /\ cfg.pm2_ports = {} /\ cfg.caddy_ports = probe[2].ports

\* C14: status issues no delete and no add command and never changes the
\* forwarding table; its listing step always ends the command successfully,
\* with the listing or, when the listing failed, with a message in its place.
C14_StatusReadOnlyShowFailureNotFatal ==
    /\ [][caller = "status" => table' = table]_vars
    /\ [](caller = "status" => (cmds = <<>> /\ calls = 0 /\ a_res = "-"))
    /\ [][(caller = "status" /\ pc = "show")
            => (/\ pc' = "exited" /\ exit' = "ok" /\ fail' = "none"
                /\ rules' \in {"listing", "Could not fetch netsh mappings"})]_vars
    /\ [](rules = "Could not fetch netsh mappings" => (caller = "status" /\ exit = "ok"))

\* C14 witness: on a host with a forwarding rule the listing failed and
\* status ended successfully with the message.
C14_Witness ==
    /\ caller = "status" /\ pc = "exited" /\ exit = "ok"
    /\ rules = "Could not fetch netsh mappings"
    /\ iolog = <<"read", "probe", "write", "ip", "show">>
    /\ table # EmptyTable /\ cmds = <<>>

\* ------------------------------------------------- extractors: properties
\* The key/value pairs of the objects of a document, at any depth.
RECURSIVE Members(_)
Members(v) ==
    IF v.t = "obj"
    THEN {<<k, v.map[k]>> : k \in DOMAIN v.map} \cup UNION {Members(v.map[k]) : k \in DOMAIN v.map}
    ELSE IF v.t = "arr"
    THEN UNION {Members(v.items[i]) : i \in 1..Len(v.items)}
    ELSE {}

\* The values of a document, at any depth, itself included.
RECURSIVE Values(_)
Values(v) ==
    {v} \cup (IF v.t = "obj" THEN UNION {Values(v.map[k]) : k \in DOMAIN v.map}
              ELSE IF v.t = "arr" THEN UNION {Values(v.items[i]) : i \in 1..Len(v.items)}
              ELSE {})

NoStrings(v) == \A x \in Values(v) : x.t # "str"

\* The keys of the documents that are "port" or "listen_port" up to case.
PortKeys == {Key_Port, Key_LISTEN_PORT}

\* C15: for a document without string values the extractor returns exactly
\* the integers 1..65535 that are the value of a key equal, up to case, to
\* "port" or "listen_port", at any depth; 0, negative numbers, numbers above
\* 65535, numbers under other keys and numbers in arrays are left out.
C15_ExtractorFindsExactlyPortKeys ==
    (caller = "json" /\ pc = "done" /\ NoStrings(value)) =>
        outp = {m[2].n : m \in {w \in Members(value) :
                                 /\ w[1] \in PortKeys
                                 /\ w[2].t = "num"
                                 /\ w[2].n >= 1 /\ w[2].n <= 65535}}

\* C15 witness: a port under an upper-case key two levels down is found,
\* next to a number in an array and a number under another key, which are not.
C15_Witness ==
    /\ caller = "json" /\ pc = "done" /\ NoStrings(value) /\ Depth(value) = 2
    /\ outp = {80}
    /\ <<Key_LISTEN_PORT, JNum(80)>> \in Members(value)
    /\ <<K_listen, JNum(U16Max)>> \in Members(value)
    /\ value.t = "arr" /\ value.items[1] = JNum(U16Max)

\* A decimal number written with digits only.
DecimalDigits(s) == s # <<>> /\ \A i \in 1..Len(s) : s[i] \in SeqSet(Digits)

\* A decimal number as str::parse reads it: digits, which a '+' may precede.
SignedDecimal(s) == DecimalDigits(s) \/ (s # <<>> /\ s[1] = "+" /\ DecimalDigits(Tail(s)))

\* The digits of a decimal number without its sign and its leading zeros.
Significant(s) ==
    LET d == IF s[1] = "+" THEN Tail(s) ELSE s
        z == CHOOSE n \in 0..Len(d) :
                 /\ \A i \in 1..n : d[i] = "0"
                 /\ (n < Len(d) => d[n + 1] # "0")
    IN SubSeq(d, z + 1, Len(d))

RECURSIVE DecimalValue(_)
DecimalValue(d) ==
    IF d = <<>> THEN 0
    ELSE 10 * DecimalValue(SubSeq(d, 1, Len(d) - 1))
         + (CHOOSE n \in 0..9 : Digits[n + 1] = d[Len(d)])

\* s is a decimal number in 1..65535; signed tells whether a '+' may precede
\* the digits.
PortText(s, signed) ==
    /\ IF signed THEN SignedDecimal(s) ELSE DecimalDigits(s)
    /\ Len(Significant(s)) \in 1..5
    /\ DecimalValue(Significant(s)) <= 65535

\* The text after the last ':' of a string that has one.
AfterLastColon(s) ==
    LET i == CHOOSE n \in 1..Len(s) : s[n] = ":" /\ \A j \in (n + 1)..Len(s) : s[j] # ":"
    IN SubSeq(s, i + 1, Len(s))

\* s without its trailing '/'.
WithoutTrailingSlashes(s) ==
    LET n == CHOOSE m \in 0..Len(s) :
                 /\ \A j \in (m + 1)..Len(s) : s[j] = "/"
                 /\ (m > 0 => s[m] # "/")
    IN SubSeq(s, 1, n)

\* What the rule is to yield for a string.
PortsOfString(s, signed) ==
    IF s # <<>> /\ s[1] = ":" /\ PortText(Tail(s), signed)
    THEN <<DecimalValue(Significant(Tail(s)))>>
    ELSE IF \E i \in 1..Len(s) : s[i] = ":"
    THEN LET t == WithoutTrailingSlashes(AfterLastColon(s))
         IN IF PortText(t, signed) THEN <<DecimalValue(Significant(t))>> ELSE <<>>
    ELSE <<>>

\* The four strings the rule is described by.
StringExamples ==
    /\ extract_ports_from_string(<<":", "8", "0", "8", "0">>) = <<8080>>
    /\ extract_ports_from_string(
          <<"0", ".", "0", ".", "0", ".", "0", ":", "3", "0", "0", "0", "/">>) = <<3000>>
    /\ extract_ports_from_string(
          <<"n", "o", "-", "c", "o", "l", "o", "n", "-", "h", "e", "r", "e">>) = <<>>
    /\ extract_ports_from_string(<<":", "0">>) = <<>>

\* C16 as stated: a string yields at most one port: the number after a
\* leading ':' when the rest of the string is a decimal number in 1..65535;
\* otherwise the text after the last ':', its trailing '/' stripped, when
\* that is a decimal number in 1..65535; otherwise nothing.
C16_StringRuleDigitsOnly ==
    /\ (caller = "string" /\ pc = "done") =>
          (Len(outp) <= 1 /\ outp = PortsOfString(input, FALSE))
    /\ StringExamples

\* C16, amended: the same rule, where a decimal number is a run of digits
\* that a '+' may precede: ":+8080" yields 8080 as ":8080" does. ":8080"
\* yields 8080, "0.0.0.0:3000/" yields 3000, "no-colon-here" and ":0" yield
\* nothing.
C16_StringRuleYieldsAtMostOnePort ==
    /\ (caller = "string" /\ pc = "done") =>
          (Len(outp) <= 1 /\ outp = PortsOfString(input, TRUE))
    /\ StringExamples

\* C16 witness: ":+8080" has yielded 8080.
C16_Witness ==
    /\ caller = "string" /\ pc = "done"
    /\ input = <<":", "+", "8", "0", "8", "0">>
    /\ outp = <<8080>>

\* ------------------------------------------- two invocations: properties
\* The step is a successful save of the daemon.
DaemonSaved == caller = "daemon" /\ pc = "save" /\ pc' = "resolve"

\* C17: the daemon's save writes the manual set the cycle loaded, whatever
\* the file holds by then: when `add p` has saved p after the cycle's load,
\* the save takes p out of the file again, and p stays lost although the add
\* ends successfully.
C17_DaemonSaveLosesConcurrentAdd ==
    /\ [][DaemonSaved => file'.manual_ports = loaded.manual_ports]_vars
    /\ [][(/\ DaemonSaved
            /\ o_exit # "-"
            /\ o_arg \in file.manual_ports /\ o_arg \notin loaded.manual_ports)
            => o_arg \notin file'.manual_ports]_vars

\* C17 witness: `add p` has ended successfully, the daemon has saved and
\* goes on, and p is not in the persisted manual set.
C17_Witness ==
    /\ caller = "daemon" /\ pc = "resolve" /\ fail = "none"
    /\ o_exit = "ok" /\ o_arg # 0
    /\ o_arg \notin file.manual_ports /\ o_arg \notin loaded.manual_ports

\* ------------------------------------------- what apply is given and leaves
\* apply has been called by the running command or cycle.
Applying == caller \in {"add", "remove", "sync", "daemon"} /\ calls > 0

CommandsFor(op, p) == {k \in 1..Len(cmds) : cmds[k].op = op /\ cmds[k].listenport = p}

\* C18: the registry's sets never hold 0, and every list add, remove, sync
\* and the daemon pass to apply is strictly ascending, without 0, and is the
\* union of the three sets; a port gets at most one delete and one add per
\* apply (exactly one of each when apply returns Ok), also when it is in
\* several sets, and no command is issued for port 0.
C18_ApplyListAscendingUnionNoZero ==
    /\ 0 \notin file.manual_ports \cup file.pm2_ports \cup file.caddy_ports
    /\ 0 \notin cfg.manual_ports \cup cfg.pm2_ports \cup cfg.caddy_ports
    /\ calls <= 1
    /\ Applying =>
         /\ Ascending(a_ports)
         /\ 0 \notin SeqSet(a_ports)
         /\ SeqSet(a_ports) = cfg.manual_ports \cup cfg.pm2_ports \cup cfg.caddy_ports
         /\ \A k \in 1..Len(cmds) : cmds[k].listenport \in SeqSet(a_ports) \ {0}
         /\ \A p \in SeqSet(a_ports) :
              /\ Cardinality(CommandsFor("delete", p)) <= 1
              /\ Cardinality(CommandsFor("add", p)) <= 1
              /\ a_res = "Ok" =>
                    (/\ Cardinality(CommandsFor("delete", p)) = 1
                     /\ Cardinality(CommandsFor("add", p)) = 1)

\* C18 witness: sync applied two ports, one of them in all three sets, with
\* one delete and one add for each.
C18_Witness ==
    /\ caller = "sync" /\ Applying /\ a_res = "Ok"
    /\ cfg.manual_ports \cap cfg.pm2_ports \cap cfg.caddy_ports # {}
    /\ Len(a_ports) = 2 /\ Len(cmds) = 4

\* The running command or cycle is one that syncs the rules.
Syncing == caller \in {"add", "remove", "sync", "daemon"}

\* C19: add, remove, sync and the daemon save the registry before they
\* resolve the address and before any command is issued, and the file is not
\* touched after that: when the address resolution or an add command fails,
\* the file holds the registry with the manual set changed and the sets just
\* detected, and the command ends with an error.
C19_SavedBeforeSyncNoRollback ==
    /\ [](Syncing =>
            /\ \A i \in 1..Len(iolog) :
                 iolog[i] = "ip" => \E j \in 1..(i - 1) : iolog[j] = "write"
            /\ calls > 0 => (\E j \in 1..Len(iolog) : iolog[j] = "write") /\ fail # "save")
    /\ [][(Syncing /\ pc \in {"resolve", "apply_delete", "apply_add"}) => file' = file]_vars
    /\ [][(Syncing /\ fail = "none" /\ fail' \in {"ip", "apply"})
            => (/\ file' = cfg
                /\ cfg.pm2_ports = ProbeSet(1) /\ cfg.caddy_ports = ProbeSet(2)
                /\ cfg.manual_ports = ManualAfter(caller, loaded.manual_ports, arg)
                /\ IF caller = "daemon" THEN pc' = "failed"
                   ELSE pc' = "exited" /\ exit' = "err")]_vars

\* C19 witness: add p has ended with an error because an add command
\* failed, and the file holds p and the ports just detected.
C19_Witness ==
    /\ caller = "add" /\ pc = "exited" /\ exit = "err" /\ fail = "apply"
    /\ arg \in file.manual_ports /\ arg \notin loaded.manual_ports
    /\ file.pm2_ports # {} /\ file = cfg

\* C20: when apply fails at the add of the port at position k, and every
\* delete before left its port without a rule, then the ports before k have
\* their rule to the new address, the port at k has no rule, also when it had
\* one before the call, and every other port has the rule it had before the
\* call.
C20_FailedApplyLeavesTablePartial ==
    (Returned /\ caller = "driver" /\ a_res = "Err" /\ seen.delsTook) =>
        /\ \A j \in 1..Len(a_ports) :
             table[a_ports[j]] = IF j < a_i THEN RuleTo(wsl_ip, a_ports[j])
                                 ELSE IF j = a_i THEN NoRule
                                 ELSE table0[a_ports[j]]
        /\ \A p \in Ports \ SeqSet(a_ports) : table[p] = table0[p]

\* C20 witness: apply of two ports failed at the first add: the first port
\* has lost the rule it had, the second still has its old rule to another
\* address.
C20_Witness ==
    /\ Returned /\ caller = "driver" /\ a_res = "Err" /\ seen.delsTook
    /\ Len(a_ports) = 2 /\ a_i = 1
    /\ table0[a_ports[1]] # NoRule /\ table[a_ports[1]] = NoRule
    /\ table[a_ports[2]] = table0[a_ports[2]]
    /\ table[a_ports[2]] # NoRule /\ table[a_ports[2]].connectaddress # wsl_ip

====
